---- MODULE Spec2Model ----
(***************************************************************************)
(* ServerZap (src/index.js): a WhatsApp relay.  One whatsapp-web.js client  *)
(* is kept in the module-level handle `client`; its lifecycle events update *)
(* clientReady / qrRaw / qrCodeData; a BullMQ worker drains the             *)
(* "whatsappMessages" queue through client.sendMessage.                     *)
(*                                                                         *)
(* Every await of the source is a suspension point: the async functions are *)
(* cut into one action per run-to-completion segment.                       *)
(***************************************************************************)
EXTENDS Integers, Sequences, FiniteSets, TLC

\* ---------------------------------------------------------------- bounds
\* initializeWhatsAppClient() calls in one run (the start-up call included):
\* MaxInits where the session controller is checked alone, QrInits and
\* QueueInits where it runs together with GET /qrcode or with the queue
MaxInits == 3
QrInits == 2
QueueInits == 2
\* distinct QR strings the "qr" event can carry
MaxQr == 2
\* GET /qrcode requests that can be in flight together
MaxReqs == 2
\* pieces a recipient string of POST /send-message is made of
MaxLen == 2

\* ------------------------------------------------------ program constants
\* attempts: Number(process.env.JOB_ATTEMPTS || 3)
JOB_ATTEMPTS == 3

\* `client` is undefined / null
NoClient == 0
\* qrRaw = null
NoQr == 0
\* qrCodeData = null
NoData == <<>>

InitIds == 1..MaxInits
\* the client built by the t-th initializeWhatsAppClient() call is client t
ClientIds == 1..MaxInits
QrStrings == 1..MaxQr

\* req.body.number / req.body.message as they arrive (<<>> and "" are falsy)
Numbers == {<<>>, <<"5511999999999">>, <<"5511999999999", "@c.us">>}
Messages == {"", "hello"}

\* req.body.number as any string made of at most MaxLen pieces, each a run of
\* digits or the text "@c.us"
RECURSIVE Strings(_)
Strings(n) ==
  IF n = 0 THEN {<<>>}
  ELSE LET shorter == Strings(n - 1) IN
       shorter \cup {s \o <<p>> : s \in shorter, p \in {"5511999999999", "@c.us"}}

Recipients == Strings(MaxLen)

VARIABLES
  client,        \* let client
  qrCodeData,    \* let qrCodeData
  qrRaw,         \* let qrRaw
  clientReady,   \* let clientReady
  clients,       \* the Client objects: liveness and the pupBrowser field
  timers,        \* pending setTimeout(() => initializeWhatsAppClient(), 5000)
  inits,         \* the initializeWhatsAppClient() invocations
  encoding,      \* GET /qrcode requests suspended in qrcode.toDataURL(arg),
                 \* counted per argument
  job,           \* a job of messageQueue: the one this model follows
  res,           \* what the last step wrote to its HTTP response (res.json),
                 \* NoRes when the last step was not the end of a route handler
  reinitEvents   \* history: "disconnected" and "auth_failure" events delivered

vars == <<client, qrCodeData, qrRaw, clientReady, clients,
          timers, inits, encoding, job, res, reinitEvents>>

sessionVars == <<client, qrCodeData, qrRaw, clientReady, clients,
                 timers, inits, reinitEvents>>

history == <<reinitEvents>>

\* ------------------------------------------------------------- helpers
\* qrcode.toDataURL(qrRaw): a data URL, prefix followed by the image of raw
toDataURL(raw) == <<"data:image/png;base64,", raw>>

\* qrCodeData.replace(/^data:image\/(png|jpeg|jpg);base64,/, "")
stripPrefix(data) ==
  IF Len(data) > 0 /\ data[1] = "data:image/png;base64," THEN Tail(data)
  ELSE data

\* number.includes("@c.us")
includesSuffix(number) == \E i \in 1..Len(number) : number[i] = "@c.us"

\* const chatId = number.includes("@c.us") ? number : `${number}@c.us`
chatId(number) ==
  IF includesSuffix(number) THEN number ELSE number \o <<"@c.us">>

\* GET /status deriving qr_code_needed from the encoded image, not the raw string
getStatusFromEncoded ==
  IF clientReady THEN "connected"
  ELSE IF qrCodeData # NoData THEN "qr_code_needed"
  ELSE IF client # NoClient /\ clients[client].pupBrowser THEN "connecting"
  ELSE "disconnected"

\* GET /status
getStatus ==
  IF clientReady THEN "connected"
  ELSE IF qrRaw # NoQr THEN "qr_code_needed"
  ELSE IF client # NoClient /\ clients[client].pupBrowser THEN "connecting"
  ELSE "disconnected"

\* number of initializeWhatsAppClient() calls made so far
Started == Cardinality({t \in InitIds : inits[t].pc # "idle"})

\* a client object that can still emit events: built, browser up, not torn down
Emitting(c) ==
  /\ clients[c].st = "live"
  /\ clients[c].pupBrowser
  /\ inits[c].pc \in {"starting", "done"}

\* the followed job before POST /send-message has added it; `on` and `to`
\* are the client and the chatId of its pending client.sendMessage call
NoJob == [st |-> "none", number |-> <<>>, message |-> "",
          attemptsMade |-> 0, returnvalue |-> "none", on |-> NoClient,
          to |-> <<>>]

\* an HTTP response: res.status(code).json({...})
Response(route, code, description) ==
  [route |-> route, code |-> code, description |-> description,
   connectionStatus |-> "", qrCode |-> <<>>, qrCodeRaw |-> NoQr]

NoRes == Response("none", 0, "")

\* ---------------------------------------------------------------- Init
\* State once the module has loaded: the start-up initializeWhatsAppClient()
\* found `client` undefined, so destroyClient() did nothing, and it is
\* suspended in cleanSessionFolder().
Init ==
  /\ client = NoClient
  /\ qrCodeData = NoData
  /\ qrRaw = NoQr
  /\ clientReady = FALSE
  /\ clients = [c \in ClientIds |-> [st |-> "none", pupBrowser |-> FALSE]]
  /\ timers = 0
  /\ inits = [t \in InitIds |->
                IF t = 1 THEN [pc |-> "clean", tgt |-> NoClient]
                ELSE [pc |-> "idle", tgt |-> NoClient]]
  /\ encoding = [q \in QrStrings |-> 0]
  /\ job = NoJob
  /\ res = NoRes
  /\ reinitEvents = 0

\* ------------------------------------------------- Session controller
\* destroyClient(), from its entry up to its first await, run by call t
destroyClientEntry(t) ==
  IF client = NoClient
    THEN \* if (client) is false: nothing to tear down
         /\ inits' = [inits EXCEPT ![t] = [pc |-> "clean", tgt |-> NoClient]]
    ELSE IF clients[client].pupBrowser
      THEN \* await client.pupBrowser.close()
           /\ inits' = [inits EXCEPT ![t] = [pc |-> "closing", tgt |-> client]]
      ELSE \* await client.destroy()
           /\ inits' = [inits EXCEPT ![t] = [pc |-> "destroying", tgt |-> client]]

\* setTimeout callback: () => initializeWhatsAppClient()
TimerFire(n) ==
  /\ timers > 0
  /\ Started < n
  /\ LET t == Started + 1 IN destroyClientEntry(t)
  /\ timers' = timers - 1
  /\ UNCHANGED <<client, qrCodeData, qrRaw, clientReady, clients,
                 encoding, job, history>>
  /\ res' = NoRes

\* client.pupBrowser.close() settles; on success destroyClient goes on to
\* client.destroy(), reading the handle as it is now
BrowserCloseDone(t, ok) ==
  /\ inits[t].pc = "closing"
  /\ IF ok
       THEN /\ clients' = [clients EXCEPT ![inits[t].tgt].st = "destroyed"]
            /\ IF client = NoClient
                 THEN \* client.destroy() on null: TypeError, caught; client = null
                      /\ inits' = [inits EXCEPT ![t] =
                                     [pc |-> "clean", tgt |-> NoClient]]
                      /\ UNCHANGED client
                 ELSE /\ inits' = [inits EXCEPT ![t] =
                                     [pc |-> "destroying", tgt |-> client]]
                      /\ UNCHANGED client
       ELSE \* catch (e): logged; client = null
            /\ client' = NoClient
            /\ inits' = [inits EXCEPT ![t] = [pc |-> "clean", tgt |-> NoClient]]
            /\ UNCHANGED clients
  /\ UNCHANGED <<qrCodeData, qrRaw, clientReady, timers,
                 encoding, job, history>>
  /\ res' = NoRes

\* client.destroy() settles; its rejection is not caught and rejects the call
ClientDestroyDoneThrows(t, ok) ==
  /\ inits[t].pc = "destroying"
  /\ IF ok
       THEN /\ clients' = [clients EXCEPT ![inits[t].tgt].st = "destroyed"]
            /\ client' = NoClient
            /\ inits' = [inits EXCEPT ![t] = [pc |-> "clean", tgt |-> NoClient]]
       ELSE /\ inits' = [inits EXCEPT ![t] = [pc |-> "rejected", tgt |-> NoClient]]
            /\ UNCHANGED <<client, clients>>
  /\ UNCHANGED <<qrCodeData, qrRaw, clientReady, timers,
                 encoding, job, history>>
  /\ res' = NoRes

\* client.destroy() settles (resolved or caught); client = null
ClientDestroyDone(t, ok) ==
  /\ inits[t].pc = "destroying"
  /\ clients' = IF ok THEN [clients EXCEPT ![inits[t].tgt].st = "destroyed"]
                ELSE clients
  /\ client' = NoClient
  /\ inits' = [inits EXCEPT ![t] = [pc |-> "clean", tgt |-> NoClient]]
  /\ UNCHANGED <<qrCodeData, qrRaw, clientReady, timers,
                 encoding, job, history>>
  /\ res' = NoRes

\* cleanSessionFolder(): fs.rm(sessionPath, {recursive, force}) settles; an
\* error is caught and logged, so either way the call goes on to new Client
cleanSessionFolder(t) ==
  /\ inits[t].pc = "clean"
  /\ inits' = [inits EXCEPT ![t].pc = "construct"]
  /\ UNCHANGED <<client, qrCodeData, qrRaw, clientReady, clients, timers,
                 encoding, job, history>>
  /\ res' = NoRes

\* client = new Client({...}) that also resets clientReady for the new client
ConstructClientClearsReady(t, ok) ==
  /\ inits[t].pc = "construct"
  /\ IF ok
       THEN /\ client' = t
            /\ clients' = [clients EXCEPT ![t].st = "live"]
            /\ inits' = [inits EXCEPT ![t].pc = "starting"]
            /\ clientReady' = FALSE
       ELSE /\ inits' = [inits EXCEPT ![t].pc = "rejected"]
            /\ UNCHANGED <<client, clients, clientReady>>
  /\ UNCHANGED <<qrCodeData, qrRaw, timers, encoding, job, history>>
  /\ res' = NoRes

\* client = new Client({...}); handlers registered; client.initialize() called.
\* A throwing constructor rejects the call's promise (unhandledRejection logs).
ConstructClient(t, ok) ==
  /\ inits[t].pc = "construct"
  /\ IF ok
       THEN /\ client' = t
            /\ clients' = [clients EXCEPT ![t].st = "live"]
            /\ inits' = [inits EXCEPT ![t].pc = "starting"]
       ELSE /\ inits' = [inits EXCEPT ![t].pc = "rejected"]
            /\ UNCHANGED <<client, clients>>
  /\ UNCHANGED <<qrCodeData, qrRaw, clientReady, timers,
                 encoding, job, history>>
  /\ res' = NoRes

\* inside client.initialize(): puppeteer launches, client.pupBrowser is set
BrowserLaunch(c) ==
  /\ inits[c].pc = "starting"
  /\ clients[c].st = "live"
  /\ ~clients[c].pupBrowser
  /\ clients' = [clients EXCEPT ![c].pupBrowser = TRUE]
  /\ UNCHANGED <<client, qrCodeData, qrRaw, clientReady, timers, inits,
                 encoding, job, history>>
  /\ res' = NoRes

\* await client.initialize() settles; a rejection is caught and logged
ClientInitializeDone(t, ok) ==
  /\ inits[t].pc = "starting"
  /\ ok => clients[t].pupBrowser
  /\ inits' = [inits EXCEPT ![t].pc = IF ok THEN "done" ELSE "initfailed"]
  /\ UNCHANGED <<client, qrCodeData, qrRaw, clientReady, clients,
                 timers, encoding, job, history>>
  /\ res' = NoRes

\* the "qr" handler without its clientReady = false
onQrKeepReady(qr) ==
  /\ qrRaw' = qr
  /\ qrCodeData' = NoData
  /\ UNCHANGED <<clientReady, timers>>

\* client.on("qr", (qr) => {...})
onQr(qr) ==
  /\ qrRaw' = qr
  /\ qrCodeData' = NoData
  /\ clientReady' = FALSE
  /\ UNCHANGED timers

\* client.on("ready", () => {...})
onReady ==
  /\ clientReady' = TRUE
  /\ qrCodeData' = NoData
  /\ qrRaw' = NoQr
  /\ UNCHANGED timers

\* the "disconnected" handler without its setTimeout
onDisconnectedNoTimer ==
  /\ clientReady' = FALSE
  /\ qrCodeData' = NoData
  /\ qrRaw' = NoQr
  /\ UNCHANGED timers

\* client.on("disconnected", async (reason) => {...})
onDisconnected ==
  /\ clientReady' = FALSE
  /\ qrCodeData' = NoData
  /\ qrRaw' = NoQr
  /\ timers' = timers + 1

\* client.on("auth_failure", async (msg) => {...})
onAuthFailure ==
  /\ clientReady' = FALSE
  /\ qrCodeData' = NoData
  /\ qrRaw' = NoQr
  /\ timers' = timers + 1

\* the event emitter of client c; n bounds the initializeWhatsAppClient()
\* calls of the run, so an event that sets a timer needs room for its call
TimerRoom(n) == Started + timers < n

EmitQr(c, qr) ==
  /\ Emitting(c)
  /\ qr # qrRaw
  /\ onQr(qr)
  /\ UNCHANGED <<client, clients, inits, encoding, job, history>>
  /\ res' = NoRes

EmitReady(c) ==
  /\ Emitting(c)
  /\ onReady
  /\ UNCHANGED <<client, clients, inits, encoding, job, history>>
  /\ res' = NoRes

EmitDisconnected(c, n) ==
  /\ Emitting(c)
  /\ TimerRoom(n)
  /\ onDisconnected
  /\ reinitEvents' = reinitEvents + 1
  /\ UNCHANGED <<client, clients, inits, encoding, job>>
  /\ res' = NoRes

EmitAuthFailure(c, n) ==
  /\ Emitting(c)
  /\ TimerRoom(n)
  /\ onAuthFailure
  /\ reinitEvents' = reinitEvents + 1
  /\ UNCHANGED <<client, clients, inits, encoding, job>>
  /\ res' = NoRes

\* ------------------------------------------------------- GET /qrcode
\* GET /qrcode requests now suspended in the encoder
InFlight == LET Sum[q \in 0..MaxQr] ==
                  IF q = 0 THEN 0 ELSE encoding[q] + Sum[q - 1]
            IN Sum[MaxQr]

\* the 200 of GET /qrcode: qrCode is qrCodeData without its prefix, qrCodeRaw
\* is qrRaw, both as they are when the response is written
qrSuccess(data, raw) ==
  [Response("qrcode", 200, "QR Code gerado.") EXCEPT
     !.qrCode = stripPrefix(data), !.qrCodeRaw = raw]

\* GET /qrcode without the `if (clientReady)` branch
getQrCodeNoReadyCheck ==
  /\ IF qrRaw = NoQr
       THEN /\ res' = Response("qrcode", 500, "QR Code não disponível")
            /\ UNCHANGED encoding
       ELSE IF qrCodeData # NoData
         THEN /\ res' = qrSuccess(qrCodeData, qrRaw)
              /\ UNCHANGED encoding
         ELSE /\ InFlight < MaxReqs
              /\ encoding' = [encoding EXCEPT ![qrRaw] = @ + 1]
              /\ res' = NoRes
  /\ UNCHANGED <<sessionVars, job>>

\* the handler up to `await qrcode.toDataURL(qrRaw)`, or to its response
\* when it does not suspend (409, 500, or a cache hit)
getQrCode ==
  /\ IF clientReady
       THEN /\ res' = Response("qrcode", 409, "Já conectado ao WhatsApp")
            /\ UNCHANGED encoding
       ELSE IF qrRaw = NoQr
         THEN /\ res' = Response("qrcode", 500, "QR Code não disponível")
              /\ UNCHANGED encoding
         ELSE IF qrCodeData # NoData
           THEN /\ res' = qrSuccess(qrCodeData, qrRaw)
                /\ UNCHANGED encoding
           ELSE /\ InFlight < MaxReqs
                /\ encoding' = [encoding EXCEPT ![qrRaw] = @ + 1]
                /\ res' = NoRes
  /\ UNCHANGED <<sessionVars, job>>

\* qrcode.toDataURL(arg) settles: qrCodeData = <its value>, then the response;
\* a rejection is caught (500) and assigns nothing
toDataURLDone(arg, ok) ==
  /\ encoding[arg] > 0
  /\ encoding' = [encoding EXCEPT ![arg] = @ - 1]
  /\ IF ok
       THEN /\ qrCodeData' = toDataURL(arg)
            /\ res' = qrSuccess(toDataURL(arg), qrRaw)
       ELSE /\ UNCHANGED qrCodeData
            /\ res' = Response("qrcode", 500, "Falha ao gerar o QR Code.")
  /\ UNCHANGED <<client, qrRaw, clientReady, clients, timers, inits, job,
                 history>>

\* ------------------------------------------------------- GET /status
\* app.get("/status"): the derived status is the whole response
getStatusRoute ==
  /\ res' = [Response("status", 200, "Status da conexão") EXCEPT
               !.connectionStatus = getStatus]
  /\ UNCHANGED <<sessionVars, encoding, job>>

\* ------------------------------------------- Dispatch queue and worker
\* messageQueue.add with one attempt more than configured
jobOptionsExtraAttempt == [attempts |-> JOB_ATTEMPTS + 1, removeOnComplete |-> TRUE]

\* the options of messageQueue.add
jobOptions == [attempts |-> JOB_ATTEMPTS, removeOnComplete |-> TRUE]

\* POST /send-message validating the number only
submitMessageNumberOnly(number, message, ok) ==
  /\ IF number = <<>>
       THEN /\ res' = Response("send-message", 400,
                                "Número e mensagem são obrigatórios.")
            /\ UNCHANGED job
       ELSE IF ok
         THEN /\ job.st = "none"
              /\ job' = [st |-> "waiting", number |-> number,
                         message |-> message, attemptsMade |-> 0,
                         returnvalue |-> "none", on |-> NoClient,
                         to |-> <<>>]
              /\ res' = Response("send-message", 200,
                                  "Mensagem adicionada à fila para envio.")
         ELSE /\ res' = Response("send-message", 500,
                                  "Erro ao adicionar mensagem à fila.")
              /\ UNCHANGED job
  /\ UNCHANGED <<sessionVars, encoding>>

\* POST /send-message: validation, then messageQueue.add (which may reject)
submitMessage(number, message, ok) ==
  /\ IF number = <<>> \/ message = ""
       THEN \* 400
            /\ res' = Response("send-message", 400,
                                "Número e mensagem são obrigatórios.")
            /\ UNCHANGED job
       ELSE IF ok
         THEN /\ job.st = "none"
              /\ job' = [st |-> "waiting", number |-> number,
                         message |-> message, attemptsMade |-> 0,
                         returnvalue |-> "none", on |-> NoClient,
                         to |-> <<>>]
              /\ res' = Response("send-message", 200,
                                  "Mensagem adicionada à fila para envio.")
         ELSE \* add rejected: 500, nothing queued
              /\ res' = Response("send-message", 500,
                                  "Erro ao adicionar mensagem à fila.")
              /\ UNCHANGED job
  /\ UNCHANGED <<sessionVars, encoding>>

\* the queue's handling of a processor that threw: attemptsMade is advanced,
\* the job is delayed for its backoff while attemptsMade < attempts, else failed
moveToFailed ==
  LET made == job.attemptsMade + 1 IN
  job' = [job EXCEPT !.attemptsMade = made,
                     !.on = NoClient,
                     !.to = <<>>,
                     !.st = IF made < jobOptions.attempts
                              THEN "delayed" ELSE "failed"]

\* the queue's handling of a processor that returned: job completed (and
\* removed, removeOnComplete: true)
moveToCompleted(value) ==
  job' = [job EXCEPT !.st = "completed", !.on = NoClient, !.to = <<>>,
                     !.returnvalue = value]

\* executions of the processor the job has had: one per attempt that threw,
\* and the one in progress or the one that returned
Execs == job.attemptsMade + (IF job.st \in {"active", "completed"} THEN 1 ELSE 0)

\* the job is no longer in the queue: completed (removeOnComplete) or failed
Gone == job.st \in {"completed", "failed"}

\* the processor throwing when the client is not ready
processJobThrowNotReady ==
  /\ job.st = "waiting"
  /\ IF ~clientReady \/ client = NoClient
       THEN moveToFailed
       ELSE job' = [job EXCEPT !.st = "active", !.on = client,
                 !.to = chatId(job.number)]
  /\ UNCHANGED <<sessionVars, encoding>>
  /\ res' = NoRes

\* the worker processor, from job pick-up to `await client.sendMessage(...)`
\* or to its return
processJob ==
  /\ job.st = "waiting"
  /\ IF ~clientReady
       THEN \* return { status: "failed", ... }
            moveToCompleted("failed")
       ELSE IF client = NoClient
         THEN \* client.sendMessage on null: TypeError, caught and rethrown
              moveToFailed
         ELSE job' = [job EXCEPT !.st = "active", !.on = client,
                 !.to = chatId(job.number)]
  /\ UNCHANGED <<sessionVars, encoding>>
  /\ res' = NoRes

\* client.sendMessage settles: return { messageId } or throw error
sendMessageDone(ok) ==
  /\ job.st = "active"
  /\ ok => clients[job.on].st = "live"
  /\ IF ok THEN moveToCompleted("messageId") ELSE moveToFailed
  /\ UNCHANGED <<sessionVars, encoding>>
  /\ res' = NoRes

\* the backoff delay of the delayed job elapses
promoteDelayed ==
  /\ job.st = "delayed"
  /\ job' = [job EXCEPT !.st = "waiting"]
  /\ UNCHANGED <<sessionVars, encoding>>
  /\ res' = NoRes

\* ------------------------------------------------------ specifications
\* the session controller with at most n initializeWhatsAppClient() calls
SessionNext(n) ==
  \/ TimerFire(n)
  \/ \E t \in InitIds, ok \in BOOLEAN : BrowserCloseDone(t, ok)
  \/ \E t \in InitIds, ok \in BOOLEAN : ClientDestroyDone(t, ok)
  \/ \E t \in InitIds : cleanSessionFolder(t)
  \/ \E t \in InitIds, ok \in BOOLEAN : ConstructClient(t, ok)
  \/ \E c \in ClientIds : BrowserLaunch(c)
  \/ \E t \in InitIds, ok \in BOOLEAN : ClientInitializeDone(t, ok)
  \/ \E c \in ClientIds, qr \in QrStrings : EmitQr(c, qr)
  \/ \E c \in ClientIds : EmitReady(c)
  \/ \E c \in ClientIds : EmitDisconnected(c, n)
  \/ \E c \in ClientIds : EmitAuthFailure(c, n)

\* Session controller and GET /status
Next ==
  \/ SessionNext(MaxInits)
  \/ getStatusRoute

Spec == Init /\ [][Next]_vars

\* Session controller and GET /qrcode.  The route and the worker share no
\* variable they write (the route writes qrCodeData, the worker job), so each
\* is composed with the session controller separately.
QrNext ==
  \/ SessionNext(QrInits)
  \/ getQrCode
  \/ \E arg \in QrStrings, ok \in BOOLEAN : toDataURLDone(arg, ok)

QrSpec == Init /\ [][QrNext]_vars

\* Session controller, POST /send-message and the worker running one job.
\* Jobs share nothing but the session state they read, so one is followed.
QueueNext ==
  \/ SessionNext(QueueInits)
  \/ \E n \in Numbers \ {<<>>}, m \in Messages \ {""} : submitMessage(n, m, TRUE)
  \/ processJob
  \/ \E ok \in BOOLEAN : sendMessageDone(ok)
  \/ promoteDelayed

QueueSpec == Init /\ [][QueueNext]_vars

\* POST /send-message with any body, the worker, and the session from start-up
\* to its first disconnection
ApiNext ==
  \/ \E t \in InitIds : cleanSessionFolder(t)
  \/ \E t \in InitIds, ok \in BOOLEAN : ConstructClient(t, ok)
  \/ \E c \in ClientIds : BrowserLaunch(c)
  \/ \E t \in InitIds, ok \in BOOLEAN : ClientInitializeDone(t, ok)
  \/ \E c \in ClientIds, qr \in QrStrings : EmitQr(c, qr)
  \/ \E c \in ClientIds : EmitReady(c)
  \/ \E n \in Recipients, m \in Messages, ok \in BOOLEAN :
       submitMessage(n, m, ok)
  \/ processJob
  \/ \E ok \in BOOLEAN : sendMessageDone(ok)
  \/ promoteDelayed

ApiSpec == Init /\ [][ApiNext]_vars

\* What the event loop guarantees of the session controller: a timer that was
\* set fires, and an awaited call settles.  That a client emits any event is
\* not guaranteed.
Fairness ==
  /\ WF_vars(TimerFire(MaxInits))
  /\ \A t \in InitIds :
       /\ WF_vars(\E ok \in BOOLEAN : BrowserCloseDone(t, ok))
       /\ WF_vars(\E ok \in BOOLEAN : ClientDestroyDone(t, ok))
       /\ WF_vars(cleanSessionFolder(t))
       /\ WF_vars(\E ok \in BOOLEAN : ConstructClient(t, ok))
       /\ WF_vars(\E ok \in BOOLEAN : ClientInitializeDone(t, ok))

FairSpec == Spec /\ Fairness

\* The session controller with at most QrInits calls, under the same
\* guarantees of the event loop
RebuildSpec ==
  /\ Init
  /\ [][SessionNext(QrInits)]_vars
  /\ WF_vars(TimerFire(QrInits))
  /\ \A t \in InitIds :
       /\ WF_vars(\E ok \in BOOLEAN : BrowserCloseDone(t, ok))
       /\ WF_vars(\E ok \in BOOLEAN : ClientDestroyDone(t, ok))
       /\ WF_vars(cleanSessionFolder(t))
       /\ WF_vars(\E ok \in BOOLEAN : ConstructClient(t, ok))
       /\ WF_vars(\E ok \in BOOLEAN : ClientInitializeDone(t, ok))

\* ------------------------------------------------------------ claims

\* C1 (as claimed): a job leaves the queue only after sendMessage succeeded
\* for it or after it has used up all its attempts; a job picked up while
\* the session is not ready is kept for a later retry.
C1_NeverLost ==
  Gone => job.returnvalue = "messageId" \/ job.attemptsMade = JOB_ATTEMPTS

\* C2: a job submitted with maxAttempts = k has at most k executions, and the
\* retry mechanism stops re-enqueueing once attemptsMade reaches k: the job
\* is then dead-lettered.
C2_BoundedAttempts ==
  /\ Execs <= JOB_ATTEMPTS
  /\ job.attemptsMade >= JOB_ATTEMPTS => job.st = "failed"

C2_Witness == job.st = "failed" /\ job.attemptsMade = JOB_ATTEMPTS

\* the step in which the worker runs the job while the session is not ready
NotReadyRun == job.st = "waiting" /\ ~clientReady /\ job' # job

C4_MutualExclusion ==
  /\ ~(clientReady /\ qrRaw # NoQr)
  /\ getStatus = "connected" => qrRaw = NoQr
  /\ getStatus = "qr_code_needed" => ~clientReady

\* a challenge is stored while a client other than the handle's emits events
C4_Witness ==
  /\ getStatus = "qr_code_needed"
  /\ \E c \in ClientIds : c # client /\ Emitting(c)

\* C5 (as claimed): qrCodeData is non-empty only if it is the encoding of the
\* current qrRaw, also when an event arrives while GET /qrcode is suspended
\* in the encoder.
C5_CacheFresh ==
  qrCodeData # NoData => qrRaw # NoQr /\ qrCodeData = toDataURL(qrRaw)

\* C6 (as claimed): the encoder runs once per challenge value: no second run
\* for a challenge is started while a first one is still suspended.
C6_EncodedOnce == \A q \in QrStrings : encoding[q] <= 1

\* C7 (as claimed): a client leaves the handle, replaced or reset, only through
\* the initializeWhatsAppClient() call that tore that client down; no
\* construction overwrites a handle that still refers to a client.
C7_DestroyBeforeConstruct ==
  [][(client # NoClient /\ client' # client) =>
       \E t \in InitIds :
         /\ inits[t].pc \in {"closing", "destroying"}
         /\ inits[t].tgt = client
         /\ inits'[t] # inits[t]]_vars

\* C8 (as claimed): an initializeWhatsAppClient() call never resets or
\* overwrites the handle while it refers to a client built by a newer call.
C8_StaleInitHarmless ==
  [][\A t \in InitIds :
       (inits'[t] # inits[t] /\ client # NoClient /\ client' # client)
         => client <= t]_vars

\* C9: a disconnected (or auth_failure) event leaves qrRaw and qrCodeData
\* empty and clientReady false and sets exactly one timer; a timer is set only
\* by such an event and is consumed only by one initializeWhatsAppClient()
\* call, so each event leads to exactly one call.
C9_OneReinitPerEvent ==
  [][/\ reinitEvents' # reinitEvents =>
          /\ qrRaw' = NoQr
          /\ qrCodeData' = NoData
          /\ ~clientReady'
          /\ timers' = timers + 1
     /\ Started' # Started => Started' = Started + 1 /\ timers' = timers - 1
     /\ timers' # timers => reinitEvents' # reinitEvents \/ Started' # Started
     /\ reinitEvents' = timers' + Started' - 1]_vars

\* the one disconnected (or auth_failure) delivered so far arrived after a
\* challenge had been stored and requested (its encoding is still pending),
\* has left the session neither ready nor awaiting a challenge, and the one
\* call it scheduled has been made
C9_Witness ==
  /\ reinitEvents = 1
  /\ Started = 2
  /\ timers = 0
  /\ qrRaw = NoQr
  /\ ~clientReady
  /\ InFlight > 0

\* C10 (as claimed): after client.initialize() has failed inside an
\* initializeWhatsAppClient() call, a further call is eventually made (stated
\* for the calls that leave room for a further one within MaxInits; the claim
\* says the same of a throwing constructor, which ends in "rejected").
C10_RetriedAfterFailure ==
  \A t \in 1..(MaxInits - 1) :
    (inits[t].pc = "initfailed")
      ~> (\E u \in InitIds : u > t /\ inits[u].pc # "idle")

\* C11: a failure of pupBrowser.close() or of client.destroy() is swallowed:
\* however the awaited teardown call settles, destroyClient ends with the
\* handle null and the call at cleanSessionFolder; from there the call only
\* goes on to new Client and client.initialize(); and a call that is tearing
\* down always reaches new Client.
C11_TeardownFailureSwallowed ==
  /\ [][\A t \in InitIds :
         /\ (inits[t].pc \in {"closing", "destroying"}
              /\ inits'[t].pc \notin {"closing", "destroying"})
            => (client' = NoClient /\ inits'[t].pc = "clean")
         /\ (inits[t].pc = "clean" /\ inits'[t].pc # "clean")
            => inits'[t].pc = "construct"
         /\ (inits[t].pc = "construct" /\ inits'[t].pc # "construct")
            => inits'[t].pc \in {"starting", "rejected"}]_vars
  /\ \A t \in InitIds :
       (inits[t].pc \in {"closing", "destroying"})
         ~> (inits[t].pc \in {"starting", "rejected"})

\* the second call has constructed and started its client although the
\* teardown of the first client failed (that client was never destroyed)
C11_Witness ==
  /\ Started = 2
  /\ inits[2].pc = "starting"
  /\ client = 2
  /\ clients[1].st = "live"

\* C12 (as claimed): clientReady is true only while the handle is non-null
\* and refers to a client that has not been destroyed or replaced since it
\* emitted ready.
C12_NoStaleReady ==
  clientReady => (client # NoClient /\ clients[client].st = "live")

\* C13: the status GET /status reports follows the table (connected exactly
\* when ready; qr_code_needed exactly when not ready and a challenge is
\* stored; connecting exactly when neither and the handle is active, that is
\* non-null with its browser launched; disconnected otherwise), and the
\* request changes no state of the session, the encoder or the queue.
C13_StatusTable ==
  [][res'.route = "status" =>
       LET status == res'.connectionStatus
           awaiting == ~clientReady /\ qrRaw # NoQr
           idle == ~clientReady /\ qrRaw = NoQr
           active == client # NoClient /\ clients[client].pupBrowser
       IN  /\ status = "connected" <=> clientReady
           /\ status = "qr_code_needed" <=> awaiting
           /\ status = "connecting" <=> (idle /\ active)
           /\ status = "disconnected" <=> (idle /\ ~active)
           /\ UNCHANGED <<sessionVars, encoding, job>>]_vars

\* GET /status answered connecting: no challenge, not ready, browser launched
C13_Witness ==
  /\ res.route = "status"
  /\ res.connectionStatus = "connecting"
  /\ client # NoClient
  /\ ~clientReady

\* C14: a GET /qrcode made while the session is ready is answered 409
\* (already connected); one made while it is not ready and no raw challenge is
\* stored is answered 500 (no QR available); a request is answered 200 or
\* handed to the encoder only if, when it was made, the session was not ready
\* and a raw challenge was stored, and the encoder is given that challenge.
C14_QrCodeOutcomes ==
  [][/\ (res'.route = "qrcode" /\ encoding' = encoding) =>
          /\ clientReady => res'.code = 409
          /\ (~clientReady /\ qrRaw = NoQr) =>
                (res'.code = 500 /\ res'.description = "QR Code não disponível")
          /\ res'.code = 200 => (~clientReady /\ qrRaw # NoQr)
     /\ \A q \in QrStrings :
          encoding'[q] > encoding[q] =>
            (~clientReady /\ qrRaw = q /\ q # NoQr /\ res' = NoRes)
     /\ (res'.route = "qrcode" /\ res'.code = 200 /\ encoding' # encoding) =>
          \E q \in QrStrings :
            /\ encoding'[q] < encoding[q]
            /\ res'.qrCode = stripPrefix(toDataURL(q))]_vars

\* a request made with a challenge stored was answered with its encoding
C14_Witness ==
  /\ res.route = "qrcode"
  /\ res.code = 200
  /\ qrRaw # NoQr
  /\ res.qrCode = stripPrefix(toDataURL(qrRaw))

\* C15 (as claimed): the only step that takes the session out of ready is the
\* delivery of a disconnection (the disconnected event, or auth_failure, which
\* the code handles identically): it clears the challenge and schedules a
\* reinitialization.
C15_OnlyDisconnectedLeavesReady ==
  [][(clientReady /\ ~clientReady') =>
       (qrRaw' = NoQr /\ reinitEvents' = reinitEvents + 1)]_vars

\* C15 (amended): the session leaves ready only by the delivery of an event:
\* a qr event, which stores the challenge and schedules nothing, or a
\* disconnected or auth_failure event, which clears the challenge and
\* schedules one reinitialization.  No step of a reinitialization, of a
\* teardown, of a request or of the worker clears readiness.
C15_OnlyEventsLeaveReady ==
  [][(clientReady /\ ~clientReady') =>
       /\ UNCHANGED <<client, clients, inits, encoding, job>>
       /\ \/ qrRaw' # NoQr /\ UNCHANGED <<timers, reinitEvents>>
          \/ /\ qrRaw' = NoQr
             /\ timers' = timers + 1
             /\ reinitEvents' = reinitEvents + 1]_vars

\* a job was picked up while the session was ready, no disconnection has ever
\* been delivered, and the session is now awaiting a challenge: a qr event
\* took it out of ready
C15_Witness ==
  /\ job.st = "active"
  /\ reinitEvents = 0
  /\ ~clientReady
  /\ qrRaw # NoQr

\* C16 (as claimed): whenever the worker calls client.sendMessage, clientReady
\* is true in that same step and the client the call is made on is the one
\* the handle refers to, a client that is ready: built and not torn down.
C16_SendOnReadyClient ==
  [][(job.st = "waiting" /\ job'.st = "active") =>
       /\ clientReady
       /\ job'.on = client
       /\ clients[client].st = "live"]_vars

\* C17: a POST /send-message whose number or message is missing or empty is
\* answered 400 in the same step (no step answered otherwise, or not
\* answered, is the handling of such a request); every 400 leaves the queue
\* as it was; and no job in the queue has an empty number or message.
C17_InvalidRejected ==
  [][/\ (res'.route # "send-message" \/ res'.code # 400) =>
          \A n \in Recipients, m \in Messages, ok \in BOOLEAN :
            (n = <<>> \/ m = "") => ~submitMessage(n, m, ok)
     /\ (res'.route = "send-message" /\ res'.code = 400) => job' = job
     /\ job'.st # "none" => (job'.number # <<>> /\ job'.message # "")]_vars

\* an invalid submission was answered 400 while a job was waiting in the queue
C17_Witness ==
  /\ res.route = "send-message"
  /\ res.code = 400
  /\ job.st = "waiting"

\* C18 (as claimed): the address a job is sent to is its recipient with the
\* suffix "@c.us" appended only if the recipient does not end with it: a
\* recipient without the suffix resolves to the same address as that recipient
\* with the suffix, and translating the address again leaves it unchanged.
C18_SuffixOnce ==
  job.st = "active" =>
    LET n == job.number
        suffixed == Len(n) > 0 /\ n[Len(n)] = "@c.us"
    IN  /\ job.to \in {n, n \o <<"@c.us">>}
        /\ suffixed => job.to = n
        /\ ~suffixed => job.to = chatId(n \o <<"@c.us">>)
        /\ chatId(job.to) = job.to

\* C19 (as claimed): no cleanSessionFolder step (the deletion of the session
\* folder) is taken while some client is constructed and not yet destroyed.
C19_NoDeleteWhileLive ==
  [][\A t \in InitIds :
       (inits[t].pc = "clean" /\ inits'[t].pc = "construct") =>
         \A c \in ClientIds : clients[c].st # "live"]_vars

\* C20 (as claimed): in every 200 response of GET /qrcode the raw string is
\* non-empty and the image is the encoding of that raw string.
C20_SelfConsistent ==
  (res.route = "qrcode" /\ res.code = 200) =>
    /\ res.qrCodeRaw # NoQr
    /\ res.qrCode = stripPrefix(toDataURL(res.qrCodeRaw))

====
